---- MODULE Spec2Model ----
(***************************************************************************)
(* Model of src/scraper.py: the fake-jobs pipeline                          *)
(*   fetch -> extract -> parse since -> filter -> dedupe -> sort -> limit   *)
(*   -> write CSV -> return                                                 *)
(* and of main()'s "fakejobs" branch that invokes it.                       *)
(*                                                                         *)
(* Python values are represented as follows.                                *)
(*   str            a sequence of one-character strings                     *)
(*   Optional[x]    <<>> for None, <<x>> for a value x                      *)
(*   datetime       a record [year, month, day] (the formats used carry no  *)
(*                  time of day, so every parsed datetime is at midnight)   *)
(*   a row          a 4-tuple <<title, company, location, date_text>>       *)
(***************************************************************************)
EXTENDS Integers, Sequences, FiniteSets, TLC

None == <<>>
Some(x) == <<x>>
IsNone(o) == Len(o) = 0
Val(o) == o[1]

(***************************************************************************)
(* Text: str.lower(), the `in` substring test, code-point comparison.       *)
(***************************************************************************)
UpperChars ==
    <<"A","B","C","D","E","F","G","H","I","J","K","L","M",
      "N","O","P","Q","R","S","T","U","V","W","X","Y","Z">>

LowerChars ==
    <<"a","b","c","d","e","f","g","h","i","j","k","l","m",
      "n","o","p","q","r","s","t","u","v","w","x","y","z">>

DigitChars == <<"0","1","2","3","4","5","6","7","8","9">>

IndexIn(c, tbl) == IF \E i \in 1..Len(tbl) : tbl[i] = c
                   THEN CHOOSE i \in 1..Len(tbl) : tbl[i] = c
                   ELSE 0

IsDigit(c) == IndexIn(c, DigitChars) # 0
DigitVal(c) == IndexIn(c, DigitChars) - 1
IsSpace(c) == c = " "

\* str.lower() on one character of the modelled alphabet
CharLower(c) == IF IndexIn(c, UpperChars) # 0
                THEN LowerChars[IndexIn(c, UpperChars)]
                ELSE c

\* s.lower()
Lower(s) == [i \in 1..Len(s) |-> CharLower(s[i])]

\* t in s   (substring test)
Contains(s, t) == \E i \in 0..(Len(s) - Len(t)) : SubSeq(s, i + 1, i + Len(t)) = t

\* ord(c) for the modelled alphabet
CodePoint(c) ==
    CASE c = " " -> 32
      [] c = "," -> 44
      [] c = "-" -> 45
      [] c = "/" -> 47
      [] IsDigit(c) -> 48 + DigitVal(c)
      [] IndexIn(c, UpperChars) # 0 -> 64 + IndexIn(c, UpperChars)
      [] IndexIn(c, LowerChars) # 0 -> 96 + IndexIn(c, LowerChars)

\* a < b on str: lexicographic by code point, a proper prefix is smaller
StrLess(a, b) ==
    \E i \in 1..Len(b) :
        /\ \A j \in 1..(i - 1) : j <= Len(a) /\ a[j] = b[j]
        /\ \/ i = Len(a) + 1
           \/ i <= Len(a) /\ CodePoint(a[i]) < CodePoint(b[i])

(***************************************************************************)
(* datetime.strptime for the three formats of _parse_date.                  *)
(* The format is compiled to a regular expression matched at the start of   *)
(* the text; text left over ("unconverted data remains"), no match, and a   *)
(* day or year outside the calendar all raise ValueError.                   *)
(***************************************************************************)
MonthAbbr ==
    << <<"j","a","n">>, <<"f","e","b">>, <<"m","a","r">>, <<"a","p","r">>,
       <<"m","a","y">>, <<"j","u","n">>, <<"j","u","l">>, <<"a","u","g">>,
       <<"s","e","p">>, <<"o","c","t">>, <<"n","o","v">>, <<"d","e","c">> >>

MonthFull ==
    << <<"j","a","n","u","a","r","y">>, <<"f","e","b","r","u","a","r","y">>,
       <<"m","a","r","c","h">>, <<"a","p","r","i","l">>, <<"m","a","y">>,
       <<"j","u","n","e">>, <<"j","u","l","y">>, <<"a","u","g","u","s","t">>,
       <<"s","e","p","t","e","m","b","e","r">>, <<"o","c","t","o","b","e","r">>,
       <<"n","o","v","e","m","b","e","r">>, <<"d","e","c","e","m","b","e","r">> >>

\* %m : 1[0-2]|0[1-9]|[1-9]      (0 when the token is no month number)
MonthTok(t) ==
    IF Len(t) = 2 /\ t[1] = "1" /\ t[2] \in {"0","1","2"} THEN 10 + DigitVal(t[2])
    ELSE IF Len(t) = 2 /\ t[1] = "0" /\ IsDigit(t[2]) /\ t[2] # "0" THEN DigitVal(t[2])
    ELSE IF Len(t) = 1 /\ IsDigit(t[1]) /\ t[1] # "0" THEN DigitVal(t[1])
    ELSE 0

\* %d : 3[0-1]|[1-2]\d|0[1-9]|[1-9]| [1-9]      (0 when the token is no day)
DayTok(t) ==
    IF Len(t) = 2 /\ t[1] = "3" /\ t[2] \in {"0","1"} THEN 30 + DigitVal(t[2])
    ELSE IF Len(t) = 2 /\ t[1] \in {"1","2"} /\ IsDigit(t[2])
        THEN 10 * DigitVal(t[1]) + DigitVal(t[2])
    ELSE IF Len(t) = 2 /\ t[1] \in {"0"," "} /\ IsDigit(t[2]) /\ t[2] # "0"
        THEN DigitVal(t[2])
    ELSE IF Len(t) = 1 /\ IsDigit(t[1]) /\ t[1] # "0" THEN DigitVal(t[1])
    ELSE 0

\* %Y : \d\d\d\d      (-1 when the token is no year)
YearTok(t) ==
    IF Len(t) = 4 /\ \A i \in 1..4 : IsDigit(t[i])
    THEN 1000 * DigitVal(t[1]) + 100 * DigitVal(t[2]) + 10 * DigitVal(t[3]) + DigitVal(t[4])
    ELSE -1

IsLeap(y) == (y % 4 = 0) /\ ((y % 100 # 0) \/ (y % 400 = 0))

DaysInMonth(y, m) ==
    IF m = 2 THEN (IF IsLeap(y) THEN 29 ELSE 28)
    ELSE IF m \in {4, 6, 9, 11} THEN 30 ELSE 31

\* datetime(y, m, d) accepts the triple (MINYEAR = 1)
ValidDate(y, m, d) == y >= 1 /\ m \in 1..12 /\ d >= 1 /\ d <= DaysInMonth(y, m)

Dt(y, m, d) == [year |-> y, month |-> m, day |-> d]

\* The parses of s under "%Y-%m-%d": (\d\d\d\d)-(%m)-(%d), nothing left over
MatchesISO(s) ==
    { Dt(YearTok(SubSeq(s, 1, 4)), MonthTok(SubSeq(s, 6, 5 + k)),
         DayTok(SubSeq(s, 7 + k, Len(s)))) :
        k \in { k \in {1, 2} :
                  /\ Len(s) >= 7 + k
                  /\ YearTok(SubSeq(s, 1, 4)) >= 0
                  /\ s[5] = "-"
                  /\ MonthTok(SubSeq(s, 6, 5 + k)) # 0
                  /\ s[6 + k] = "-"
                  /\ DayTok(SubSeq(s, 7 + k, Len(s))) # 0 } }

\* Index of the first "," of s (0 when there is none)
FirstComma(s) ==
    IF \E x \in 1..Len(s) : s[x] = ","
    THEN CHOOSE x \in 1..Len(s) : s[x] = "," /\ \A y \in 1..(x - 1) : s[y] # ","
    ELSE 0

\* The parses of s under "<month name> %d, %Y":
\*   (name, ignoring case)\s+(%d),\s+(\d\d\d\d), nothing left over.
\* Neither a name, nor white space, nor a day holds a comma, so the comma of
\* the format is the first comma c of s; the day token is the w characters
\* before it, and the year the last four characters of s.
MatchesNamed(s, names) ==
    LET c == FirstComma(s)
        n == Len(s)
    IN  { Dt(YearTok(SubSeq(s, n - 3, n)), q[1], DayTok(SubSeq(s, c - q[2], c - 1))) :
            q \in { q \in (1..12) \X {1, 2} :
                      /\ c # 0
                      /\ Len(names[q[1]]) <= n
                      /\ Lower(SubSeq(s, 1, Len(names[q[1]]))) = names[q[1]]
                      /\ c - q[2] >= Len(names[q[1]]) + 2
                      /\ \A x \in (Len(names[q[1]]) + 1)..(c - q[2] - 1) : IsSpace(s[x])
                      /\ DayTok(SubSeq(s, c - q[2], c - 1)) # 0
                      /\ n - 4 >= c + 1
                      /\ \A x \in (c + 1)..(n - 4) : IsSpace(s[x])
                      /\ YearTok(SubSeq(s, n - 3, n)) >= 0 } }

FmtISO == "%Y-%m-%d"
FmtAbbr == "%b %d, %Y"
FmtFull == "%B %d, %Y"

Matches(s, fmt) ==
    CASE fmt = FmtISO -> MatchesISO(s)
      [] fmt = FmtAbbr -> MatchesNamed(s, MonthAbbr)
      [] fmt = FmtFull -> MatchesNamed(s, MonthFull)

\* datetime.strptime(s, fmt): Some(datetime), or None where Python raises
\* ValueError.  All parses of one text under one format carry the same
\* fields, so the regular expression's choice among them does not matter.
Strptime(s, fmt) ==
    LET ok == { d \in Matches(s, fmt) : ValidDate(d.year, d.month, d.day) }
    IN  IF ok = {} THEN None ELSE Some(CHOOSE d \in ok : TRUE)

\* a < b on datetime
DtLess(a, b) ==
    \/ a.year < b.year
    \/ a.year = b.year /\ a.month < b.month
    \/ a.year = b.year /\ a.month = b.month /\ a.day < b.day

\* datetime.min
DatetimeMin == Dt(1, 1, 1)

ParseFormats == <<FmtISO, FmtAbbr, FmtFull>>

\* A variant of _parse_date whose format list lacks "%B %d, %Y"
_parse_date_without_full_month(s) ==
    IF ~IsNone(Strptime(s, FmtISO)) THEN Strptime(s, FmtISO) ELSE Strptime(s, FmtAbbr)

\* _parse_date(s): the first format that parses wins; None when none does
RECURSIVE ParseFrom(_, _)
ParseFrom(s, i) ==
    IF i > Len(ParseFormats) THEN None
    ELSE IF ~IsNone(Strptime(s, ParseFormats[i])) THEN Strptime(s, ParseFormats[i])
    ELSE ParseFrom(s, i + 1)

_parse_date(s) == ParseFrom(s, 1)

(***************************************************************************)
(* The pure stages of scrape_fake_jobs_to_csv.                              *)
(***************************************************************************)

\* _txt(el): the element's text, "" for a missing element
_txt(el) == IF IsNone(el) THEN <<>> ELSE Val(el)

\* Truth value of an Optional[str] / Optional[list]: None and empty are false
Truthy(o) == ~IsNone(o) /\ Len(Val(o)) > 0

\* `x or []`
OrEmpty(o) == IF Truthy(o) THEN Val(o) ELSE <<>>

\* blob = f"{title} {company} {loc}".lower()
Blob(row) == Lower(row[1] \o <<" ">> \o row[2] \o <<" ">> \o row[3])

\* A variant of _passes_filters that tests the exclude terms as given,
\* without lower-casing them
_passes_filters_exclude_verbatim(row, include, exclude, location, since) ==
    IF Len(include) > 0
       /\ ~(\A i \in 1..Len(include) : Contains(Blob(row), Lower(include[i])))
    THEN FALSE
    ELSE IF Len(exclude) > 0
            /\ (\E i \in 1..Len(exclude) : Contains(Blob(row), exclude[i]))
    THEN FALSE
    ELSE IF Truthy(location) /\ ~Contains(Lower(row[3]), Lower(Val(location)))
    THEN FALSE
    ELSE IF ~IsNone(since)
    THEN LET d == _parse_date(row[4])
         IN  IF IsNone(d) \/ DtLess(Val(d), Val(since)) THEN FALSE ELSE TRUE
    ELSE TRUE

\* A variant of _passes_filters that keeps a row when any include term
\* matches, and tests it whether or not terms were given
_passes_filters_any_include(row, include, exclude, location, since) ==
    IF ~(\E i \in 1..Len(include) : Contains(Blob(row), Lower(include[i])))
    THEN FALSE
    ELSE IF Len(exclude) > 0
            /\ (\E i \in 1..Len(exclude) : Contains(Blob(row), Lower(exclude[i])))
    THEN FALSE
    ELSE IF Truthy(location) /\ ~Contains(Lower(row[3]), Lower(Val(location)))
    THEN FALSE
    ELSE IF ~IsNone(since)
    THEN LET d == _parse_date(row[4])
         IN  IF IsNone(d) \/ DtLess(Val(d), Val(since)) THEN FALSE ELSE TRUE
    ELSE TRUE

\* _passes_filters(row, include, exclude, location, since)
_passes_filters(row, include, exclude, location, since) ==
    IF Len(include) > 0
       /\ ~(\A i \in 1..Len(include) : Contains(Blob(row), Lower(include[i])))
    THEN FALSE
    ELSE IF Len(exclude) > 0
            /\ (\E i \in 1..Len(exclude) : Contains(Blob(row), Lower(exclude[i])))
    THEN FALSE
    ELSE IF Truthy(location) /\ ~Contains(Lower(row[3]), Lower(Val(location)))
    THEN FALSE
    ELSE IF ~IsNone(since)
    THEN LET d == _parse_date(row[4])
         IN  IF IsNone(d) \/ DtLess(Val(d), Val(since)) THEN FALSE ELSE TRUE
    ELSE TRUE

\* rows = [r for r in rows if _passes_filters(r, include or [], exclude or [],
\*                                            location, since_dt)]
RECURSIVE FilterFrom(_, _, _, _)
FilterFrom(rs, i, a, since) ==
    IF i > Len(rs) THEN <<>>
    ELSE IF _passes_filters(rs[i], OrEmpty(a.include), OrEmpty(a.exclude),
                            a.location, since)
         THEN <<rs[i]>> \o FilterFrom(rs, i + 1, a, since)
         ELSE FilterFrom(rs, i + 1, a, since)

FilterRows(rs, a, since) == FilterFrom(rs, 1, a, since)

\* A variant of the dedupe key that keeps the letter case
DedupeKey_case_sensitive(r) == <<r[1], r[2], r[3]>>

\* key = (r[0].lower(), r[1].lower(), r[2].lower())
DedupeKey(r) == <<Lower(r[1]), Lower(r[2]), Lower(r[3])>>

\* for r in rows: if key not in seen: seen.add(key); new_rows.append(r)
RECURSIVE DedupeLoop(_, _, _, _)
DedupeLoop(rs, i, seen, new_rows) ==
    IF i > Len(rs) THEN new_rows
    ELSE IF DedupeKey(rs[i]) \notin seen
         THEN DedupeLoop(rs, i + 1, seen \cup {DedupeKey(rs[i])}, Append(new_rows, rs[i]))
         ELSE DedupeLoop(rs, i + 1, seen, new_rows)

DedupeRows(rs, dedupe) == IF dedupe THEN DedupeLoop(rs, 1, {}, <<>>) ELSE rs

\* idx_map = {"title": 0, "company": 1, "location": 2, "date": 3},
\* as 1-based tuple positions (0 for a column that is not in the map)
IdxMap(sort_by) ==
    CASE sort_by = "title" -> 1
      [] sort_by = "company" -> 2
      [] sort_by = "location" -> 3
      [] sort_by = "date" -> 4
      [] OTHER -> 0

\* key=lambda r: (_parse_date(r[3]) or datetime.min)
DateKey(r) == IF IsNone(_parse_date(r[4])) THEN DatetimeMin ELSE Val(_parse_date(r[4]))

\* A variant of the text sort key that keeps the letter case
TextKey_case_sensitive(r, idx) == r[idx]

\* key=lambda r: (r[idx] or "").lower()
TextKey(r, idx) == Lower(r[idx])

\* key(a) < key(b), the only comparison list.sort makes
KeyLess(a, b, sort_by) ==
    IF sort_by = "date" THEN DtLess(DateKey(a), DateKey(b))
    ELSE StrLess(TextKey(a, IdxMap(sort_by)), TextKey(b, IdxMap(sort_by)))

Reverse(s) == [i \in 1..Len(s) |-> s[Len(s) + 1 - i]]

\* One insertion of a stable sort: r goes before the first element whose key
\* is greater than its own, hence after every element with an equal key.
InsertStable(sorted, r, sort_by) ==
    LET later == { i \in 1..Len(sorted) : KeyLess(r, sorted[i], sort_by) }
        pos == IF later = {} THEN Len(sorted) + 1
               ELSE CHOOSE i \in later : \A j \in later : i <= j
    IN  SubSeq(sorted, 1, pos - 1) \o <<r>> \o SubSeq(sorted, pos, Len(sorted))

RECURSIVE StableSortFrom(_, _, _, _)
StableSortFrom(rs, i, sorted, sort_by) ==
    IF i > Len(rs) THEN sorted
    ELSE StableSortFrom(rs, i + 1, InsertStable(sorted, rs[i], sort_by), sort_by)

\* A variant of list.sort that gets the descending order by sorting
\* ascending and reversing the result
ListSort_reversed_afterwards(rs, sort_by, reverse) ==
    IF reverse
    THEN Reverse(StableSortFrom(rs, 1, <<>>, sort_by))
    ELSE StableSortFrom(rs, 1, <<>>, sort_by)

\* list.sort(key=..., reverse=...): a stable ascending sort; with reverse the
\* list is reversed, sorted ascending and reversed again, which keeps rows of
\* equal key in their original order.
ListSort(rs, sort_by, reverse) ==
    IF reverse
    THEN Reverse(StableSortFrom(Reverse(rs), 1, <<>>, sort_by))
    ELSE StableSortFrom(rs, 1, <<>>, sort_by)

\* if sort_by == "date": rows.sort(key=..., reverse=True) else: rows.sort(key=...)
SortRows(rs, sort_by) == ListSort(rs, sort_by, sort_by = "date")

Min(a, b) == IF a <= b THEN a ELSE b

\* A variant of the limit that slices rows[:limit] for every integer limit
LimitRows_any_integer(rs, limit) ==
    IF IsNone(limit) THEN rs
    ELSE IF Val(limit) >= 0 THEN SubSeq(rs, 1, Min(Val(limit), Len(rs)))
    ELSE SubSeq(rs, 1, IF Len(rs) + Val(limit) > 0 THEN Len(rs) + Val(limit) ELSE 0)

\* if isinstance(limit, int) and limit > 0: rows = rows[:limit]
LimitRows(rs, limit) ==
    IF ~IsNone(limit) /\ Val(limit) > 0
    THEN SubSeq(rs, 1, Min(Val(limit), Len(rs)))
    ELSE rs

\* ["Job Title", "Company", "Location", "Date Posted"]
CsvHeader ==
    << <<"J","o","b"," ","T","i","t","l","e">>, <<"C","o","m","p","a","n","y">>,
       <<"L","o","c","a","t","i","o","n">>,
       <<"D","a","t","e"," ","P","o","s","t","e","d">> >>

\* The records the CSV writer emits: the header, then one record per row
CsvRecords(rs) == <<CsvHeader>> \o rs

\* The keyword defaults of scrape_fake_jobs_to_csv
DefaultArgs ==
    [include |-> None, exclude |-> None, location |-> None, since_str |-> None,
     dedupe |-> FALSE, sort_by |-> None, limit |-> None]

(***************************************************************************)
(* The texts the inputs are built from.                                      *)
(***************************************************************************)
sEngineer == <<"E","n","g","i","n","e","e","r">>
sEngineerLc == <<"e","n","g","i","n","e","e","r">>
sSeniorEngineer == <<"S","e","n","i","o","r"," ","E","n","g","i","n","e","e","r">>
sAnalyst == <<"A","n","a","l","y","s","t">>
sAcme == <<"A","c","m","e">>
sAcmeUc == <<"A","C","M","E">>
sBeta == <<"B","e","t","a">>
sRemoteUS == <<"R","e","m","o","t","e",","," ","U","S">>
sRemoteUSLc == <<"r","e","m","o","t","e",","," ","u","s">>
sAustin == <<"A","u","s","t","i","n",","," ","T","X">>
d20240105 == <<"2","0","2","4","-","0","1","-","0","5">>
d20231201 == <<"2","0","2","3","-","1","2","-","0","1">>
dJan15 == <<"J","a","n"," ","1","5",","," ","2","0","2","4">>
dJanuary15 == <<"J","a","n","u","a","r","y"," ","1","5",","," ","2","0","2","4">>
dSoon == <<"s","o","o","n">>
dFeb30 == <<"2","0","2","4","-","0","2","-","3","0">>
dUnpadded == <<"2","0","2","4","-","1","-","5">>
dMay5 == <<"M","a","y"," ","5",","," ","2","0","2","4">>
dJanLc == <<"j","a","n"," "," ","5",","," ","2","0","2","4">>
dTrailing == <<"2","0","2","4","-","0","1","-","0","5"," ">>
dYear1 == <<"0","0","0","1","-","0","1","-","0","1">>
dDec31 == <<"D","e","c"," ","3","1",","," ","2","0","2","3">>
since20240101 == <<"2","0","2","4","-","0","1","-","0","1">>
since20240115 == <<"2","0","2","4","-","0","1","-","1","5">>
sinceSlashes == <<"0","1","/","0","1","/","2","0","2","4">>
sinceWord == <<"J","a","n"," ","1",","," ","2","0","2","4">>
tEngineerUc == <<"E","N","G","I","N","E","E","R">>
tAcmeLc == <<"a","c","m","e">>
tAcrossFields == <<"r"," ","a">>
tSenior == <<"s","e","n","i","o","r">>
tBeta == <<"B","E","T","A">>
tRemoteUc == <<"R","E","M","O","T","E">>
tAustin == <<"a","u","s","t","i","n">>
sEmpty == <<>>

\* A card of the page: the text of h2.title, h3.subtitle, p.location and time,
\* each None when the card lacks the element
Card(title, company, loc, date) ==
    [title |-> title, company |-> company, location |-> loc, time |-> date]

\* Cards for dedupe and sort: two with one dedupe key and different dates,
\* two with one date in different formats, two with no parseable date, and
\* field values that differ in letter case only
CardPool ==
    { Card(Some(sEngineer), Some(sAcme), Some(sRemoteUS), Some(d20240105)),
      Card(Some(sEngineerLc), Some(sAcmeUc), Some(sRemoteUSLc), Some(dSoon)),
      Card(Some(sAnalyst), Some(sBeta), Some(sAustin), Some(dJan15)),
      Card(Some(sAnalyst), Some(sAcme), Some(sRemoteUS), Some(dJanuary15)),
      Card(None, None, None, None) }

\* Cards for the keyword and location criteria
FilterCardPool ==
    { Card(Some(sEngineer), Some(sAcme), Some(sRemoteUS), Some(d20240105)),
      Card(Some(sAnalyst), Some(sBeta), Some(sAustin), Some(dJan15)),
      Card(Some(sSeniorEngineer), Some(sAcme), Some(sAustin), Some(d20231201)),
      Card(None, None, None, None) }

\* Cards that differ in their date text only
DateTexts ==
    { d20240105, d20231201, dJan15, dJanuary15, dSoon, sEmpty, dFeb30, dUnpadded,
      dMay5, dJanLc, dTrailing, dYear1, dDec31 }

DateCardPool == { Card(Some(sEngineer), Some(sAcme), Some(sRemoteUS), Some(d)) : d \in DateTexts }

\* The pool the error-handling runs draw their pages from
SmallCardPool ==
    { Card(Some(sEngineer), Some(sAcme), Some(sRemoteUS), Some(d20240105)),
      Card(Some(sAnalyst), Some(sBeta), Some(sAustin), Some(dSoon)) }

MaxRows == 2
MaxSortRows == 3
MaxLimit == 2

SeqsUpTo(S, n) == UNION { [1..k -> S] : k \in 0..n }

\* A file left at the output path by an earlier run
OldFile == Some(CsvRecords(<< <<sAnalyst, sBeta, sAustin, dSoon>> >>))

Opts(include, exclude, location, since_str, dedupe, sort_by, limit) ==
    [include |-> include, exclude |-> exclude, location |-> location,
     since_str |-> since_str, dedupe |-> dedupe, sort_by |-> sort_by, limit |-> limit]

\* One invocation: who invokes (main's fakejobs branch, or a direct call of
\* scrape_fake_jobs_to_csv), the option values given, the page served, and
\* what is at the output path beforehand.
Invocations(entries, optss, sites, files) ==
    { [entry |-> e, opts |-> o, site |-> s, file0 |-> f] :
        e \in entries, o \in optss, s \in sites, f \in files }

(***************************************************************************)
(* State.                                                                   *)
(*   pc        position in main / scrape_fake_jobs_to_csv                   *)
(*   input     the invocation (fixed during a run)                          *)
(*   args      the parameters scrape_fake_jobs_to_csv received (None before *)
(*             the call)                                                    *)
(*   rows      the local `rows`                                             *)
(*   since_dt  the local `since_dt`                                         *)
(*   error     the exception that ended the call, None when there is none   *)
(*   result    the value returned, None before the return                   *)
(*   dirMade   out_path.parent.mkdir has run                                *)
(*   file      the records of the file at the output path, None for no file *)
(*   hist      the stages executed so far, each with the rows it left       *)
(*   exitCode  the process exit status set by main, None while running      *)
(***************************************************************************)
VARIABLES pc, input, args, rows, since_dt, error, result, dirMade, file, hist, exitCode

vars == <<pc, input, args, rows, since_dt, error, result, dirMade, file, hist, exitCode>>

Done(stage, rs) == Append(hist, [stage |-> stage, rows |-> rs])

InitWith(invocations) ==
    /\ input \in invocations
    /\ pc = "start"
    /\ args = None
    /\ rows = <<>>
    /\ since_dt = None
    /\ error = None
    /\ result = None
    /\ dirMade = FALSE
    /\ file = input.file0
    /\ hist = <<>>
    /\ exitCode = None

\* main(), cmd == "fakejobs": count = scrape_fake_jobs_to_csv(Path(args.out))
Main ==
    /\ pc = "start" /\ input.entry = "main"
    /\ args' = Some(DefaultArgs)
    /\ pc' = "fetch"
    /\ UNCHANGED <<input, rows, since_dt, error, result, dirMade, file, hist, exitCode>>

\* A direct call scrape_fake_jobs_to_csv(out_path, include=..., ..., limit=...)
Call ==
    /\ pc = "start" /\ input.entry = "api"
    /\ args' = Some(input.opts)
    /\ pc' = "fetch"
    /\ UNCHANGED <<input, rows, since_dt, error, result, dirMade, file, hist, exitCode>>

\* resp = requests.get(url, headers=HEADERS, timeout=TIMEOUT); resp.raise_for_status()
Fetch ==
    /\ pc = "fetch"
    /\ \E outcome \in {"ok", "Timeout", "HTTPError"} :
         /\ error' = IF outcome = "ok" THEN None ELSE Some(outcome)
         /\ pc' = IF outcome = "ok" THEN "extract" ELSE "raised"
    /\ hist' = Done("fetch", rows)
    /\ UNCHANGED <<input, args, rows, since_dt, result, dirMade, file, exitCode>>

\* for c in cards: rows.append((title, company, loc, date_posted))
ExtractRows(site) ==
    [i \in 1..Len(site) |->
        <<_txt(site[i].title), _txt(site[i].company), _txt(site[i].location),
          _txt(site[i].time)>>]

Extract ==
    /\ pc = "extract"
    /\ rows' = ExtractRows(input.site)
    /\ hist' = Done("extract", rows')
    /\ pc' = "since"
    /\ UNCHANGED <<input, args, since_dt, error, result, dirMade, file, exitCode>>

\* since_dt = None; if since_str: since_dt = datetime.strptime(since_str, "%Y-%m-%d"),
\* a ValueError becoming ValueError("Invalid --since format. Use YYYY-MM-DD.")
SinceOf(since_str) == IF Truthy(since_str) THEN Strptime(Val(since_str), FmtISO) ELSE None

SinceRaises(since_str) == Truthy(since_str) /\ IsNone(Strptime(Val(since_str), FmtISO))

ParseSince ==
    /\ pc = "since"
    /\ IF SinceRaises(Val(args).since_str)
       THEN /\ error' = Some("ValueError: Invalid --since format")
            /\ pc' = "raised"
            /\ UNCHANGED since_dt
       ELSE /\ since_dt' = SinceOf(Val(args).since_str)
            /\ pc' = "filter"
            /\ UNCHANGED error
    /\ UNCHANGED <<input, args, rows, result, dirMade, file, hist, exitCode>>

Filter ==
    /\ pc = "filter"
    /\ rows' = FilterRows(rows, Val(args), since_dt)
    /\ hist' = Done("filter", rows')
    /\ pc' = "dedupe"
    /\ UNCHANGED <<input, args, since_dt, error, result, dirMade, file, exitCode>>

Dedupe ==
    /\ pc = "dedupe"
    /\ rows' = DedupeRows(rows, Val(args).dedupe)
    /\ hist' = Done("dedupe", rows')
    /\ pc' = "sort"
    /\ UNCHANGED <<input, args, since_dt, error, result, dirMade, file, exitCode>>

\* `if sort_by:` -- None and "" skip the block
SortRequested(sort_by) == ~IsNone(sort_by) /\ Val(sort_by) # ""

\* if sort_by not in idx_map: raise ValueError("Invalid --sort. ...")
SortRaises(sort_by) == SortRequested(sort_by) /\ IdxMap(Val(sort_by)) = 0

SortStage(rs, sort_by) == IF SortRequested(sort_by) THEN SortRows(rs, Val(sort_by)) ELSE rs

\* A variant of the sort step that creates the directory and opens the
\* output file for writing before sort_by is validated
Sort_output_opened_first ==
    /\ pc = "sort"
    /\ dirMade' = TRUE
    /\ file' = Some(<<>>)
    /\ IF SortRaises(Val(args).sort_by)
       THEN /\ error' = Some("ValueError: Invalid --sort")
            /\ pc' = "raised"
            /\ UNCHANGED <<rows, hist>>
       ELSE /\ rows' = SortStage(rows, Val(args).sort_by)
            /\ hist' = Done("sort", rows')
            /\ pc' = "limit"
            /\ UNCHANGED error
    /\ UNCHANGED <<input, args, since_dt, result, exitCode>>

Sort ==
    /\ pc = "sort"
    /\ IF SortRaises(Val(args).sort_by)
       THEN /\ error' = Some("ValueError: Invalid --sort")
            /\ pc' = "raised"
            /\ UNCHANGED <<rows, hist>>
       ELSE /\ rows' = SortStage(rows, Val(args).sort_by)
            /\ hist' = Done("sort", rows')
            /\ pc' = "limit"
            /\ UNCHANGED error
    /\ UNCHANGED <<input, args, since_dt, result, dirMade, file, exitCode>>

Limit ==
    /\ pc = "limit"
    /\ rows' = LimitRows(rows, Val(args).limit)
    /\ hist' = Done("limit", rows')
    /\ pc' = "write"
    /\ UNCHANGED <<input, args, since_dt, error, result, dirMade, file, exitCode>>

\* out_path.parent.mkdir(parents=True, exist_ok=True); open "w"; writerow(header);
\* writerow(list(r)) for every row
WriteCsv ==
    /\ pc = "write"
    /\ dirMade' = TRUE
    /\ file' = Some(CsvRecords(rows))
    /\ hist' = Done("write", rows)
    /\ pc' = "return"
    /\ UNCHANGED <<input, args, rows, since_dt, error, result, exitCode>>

\* return len(rows)
Return ==
    /\ pc = "return"
    /\ result' = Some(Len(rows))
    /\ pc' = "returned"
    /\ UNCHANGED <<input, args, rows, since_dt, error, dirMade, file, hist, exitCode>>

\* main(): print the count; except requests.HTTPError: sys.exit(2);
\* except Exception: sys.exit(1)
ExitCodeOf(err) ==
    IF IsNone(err) THEN 0 ELSE IF Val(err) = "HTTPError" THEN 2 ELSE 1

MainExit ==
    /\ pc \in {"returned", "raised"} /\ input.entry = "main"
    /\ exitCode' = Some(ExitCodeOf(error))
    /\ pc' = "exit"
    /\ UNCHANGED <<input, args, rows, since_dt, error, result, dirMade, file, hist>>

Next ==
    \/ Main \/ Call \/ Fetch \/ Extract \/ ParseSince \/ Filter \/ Dedupe
    \/ Sort \/ Limit \/ WriteCsv \/ Return \/ MainExit

(***************************************************************************)
(* Specifications.  Every one runs the same program; they differ in the     *)
(* invocations Init draws.                                                  *)
(***************************************************************************)
NoFile == {None}

\* Option values argparse can hand to main for "fakejobs": --include and
\* --exclude default to [], --sort is one of the four choices or None.
CliOpts ==
    { Opts(i, Some(<<>>), l, s, d, sb, lim) :
        i \in {Some(<<>>), Some(<<tEngineerUc>>)},
        l \in {None, Some(tAustin)},
        s \in {None, Some(since20240101), Some(sinceSlashes)},
        d \in BOOLEAN,
        sb \in {None, Some("date")},
        lim \in {None, Some(1)} }

\* Direct calls, well-formed and ill-formed
CallOpts ==
    { Opts(i, None, None, s, d, sb, lim) :
        i \in {None, Some(<<tEngineerUc>>)},
        s \in {None, Some(since20240101), Some(sinceSlashes), Some(sinceWord)},
        d \in BOOLEAN,
        sb \in {None, Some("date"), Some("salary")},
        lim \in {None, Some(1)} }

Init ==
    InitWith(Invocations({"main"}, CliOpts, SeqsUpTo(SmallCardPool, MaxRows), {None, OldFile})
             \cup Invocations({"api"}, CallOpts, SeqsUpTo(SmallCardPool, MaxRows), {None, OldFile}))

Spec == Init /\ [][Next]_vars

\* Keyword, location and since criteria
FilterOpts ==
    { Opts(i, e, l, None, FALSE, None, None) :
        i \in {None, Some(<<>>), Some(<<tEngineerUc>>), Some(<<tAcmeLc, tSenior>>),
               Some(<<tAcrossFields>>)},
        e \in {None, Some(<<>>), Some(<<tBeta>>), Some(<<tSenior, tAustin>>)},
        l \in {None, Some(sEmpty), Some(tRemoteUc)} }
    \cup
    { Opts(i, e, l, s, FALSE, None, None) :
        i \in {None, Some(<<tEngineerUc>>)},
        e \in {None, Some(<<tBeta>>)},
        l \in {None, Some(tRemoteUc)},
        s \in {Some(sEmpty), Some(since20240101)} }
    \cup
    { Opts(Some(<<>>), Some(<<>>), Some(sEmpty), Some(sEmpty), FALSE, None, None) }

InitFilter ==
    InitWith(Invocations({"main"}, {Opts(Some(<<>>), Some(<<>>), None, None, FALSE, None, None)},
                         SeqsUpTo(FilterCardPool, MaxRows), NoFile)
             \cup Invocations({"api"}, FilterOpts, SeqsUpTo(FilterCardPool, MaxRows), NoFile))

SpecFilter == InitFilter /\ [][Next]_vars

\* The since cutoff against every date text
DateOpts ==
    { Opts(None, None, None, s, FALSE, None, None) :
        s \in {Some(since20240101), Some(since20240115), Some(dUnpadded)} }

InitDate ==
    InitWith(Invocations({"main"}, {Opts(Some(<<>>), Some(<<>>), None, Some(since20240101), FALSE, None, None)},
                         SeqsUpTo(DateCardPool, MaxRows), NoFile)
             \cup Invocations({"api"}, DateOpts, SeqsUpTo(DateCardPool, MaxRows), NoFile))

SpecDate == InitDate /\ [][Next]_vars

\* Dedupe and sort
SortOpts ==
    { Opts(None, None, None, None, d, sb, None) :
        d \in BOOLEAN,
        sb \in {None, Some(""), Some("date"), Some("title"), Some("company"),
                Some("location")} }
    \cup
    { Opts(Some(<<tAcmeLc>>), None, None, None, TRUE, sb, None) :
        sb \in {None, Some("date")} }

InitSort ==
    InitWith(Invocations({"main"}, {Opts(Some(<<>>), Some(<<>>), None, None, TRUE, Some("date"), None)},
                         SeqsUpTo(CardPool, MaxRows), NoFile)
             \cup Invocations({"api"}, SortOpts, SeqsUpTo(CardPool, MaxSortRows), NoFile))

SpecSort == InitSort /\ [][Next]_vars

\* Limit
Limits == {None} \cup { Some(k) : k \in (-1)..MaxLimit }

LimitOpts ==
    { Opts(None, None, None, None, FALSE, sb, lim) :
        sb \in {None, Some("date"), Some("title")}, lim \in Limits }

InitLimit ==
    InitWith(Invocations({"main"}, {Opts(Some(<<>>), Some(<<>>), None, None, FALSE, None, Some(1))},
                         SeqsUpTo(SmallCardPool, MaxRows), NoFile)
             \cup Invocations({"api"}, LimitOpts, SeqsUpTo(SmallCardPool, MaxSortRows),
                              {None, OldFile}))

SpecLimit == InitLimit /\ [][Next]_vars

(***************************************************************************)
(* Properties.                                                              *)
(***************************************************************************)
Ran(stage) == \E i \in 1..Len(hist) : hist[i].stage = stage
StageIndex(stage) == CHOOSE i \in 1..Len(hist) : hist[i].stage = stage
RowsAfter(stage) == hist[StageIndex(stage)].rows

\* The stage was the last one to run: the state is the one it left
JustRan(stage) == Len(hist) > 0 /\ hist[Len(hist)].stage = stage

SinceError == Some("ValueError: Invalid --since format")
SortError == Some("ValueError: Invalid --sort")
ConfigError == error \in {SinceError, SortError}

\* C1: a run that ends in a configuration error (malformed since, or a
\* sort_by outside the four columns) has done no HTTP fetch, no row
\* extraction, no filtering and no deduplication before the error is raised.
C1_ConfigErrorBeforeAnyWork ==
    (pc = "raised" /\ ConfigError) =>
        ~Ran("fetch") /\ ~Ran("extract") /\ ~Ran("filter") /\ ~Ran("dedupe")

\* C2: whenever the call fails (retrieval error, malformed since, invalid
\* sort_by) the output is untouched: the parent directory was not created,
\* the file was not opened or written, and a file already at the output path
\* keeps its content.
C2_FailureLeavesOutputUntouched ==
    ~IsNone(error) =>
        /\ dirMade = FALSE
        /\ ~Ran("write")
        /\ file = input.file0
        /\ IsNone(result)

C2_Witness ==
    /\ pc = "raised"
    /\ error = SortError
    /\ input.file0 = OldFile
    /\ file = OldFile
    /\ Len(RowsAfter("dedupe")) > 0

\* The criteria as the specification words them
Terms(o) == IF IsNone(o) THEN {} ELSE { Val(o)[i] : i \in 1..Len(Val(o)) }

CritBlob(r) == Lower(r[1] \o <<" ">> \o r[2] \o <<" ">> \o r[3])

CritInclude(r, include) == \A term \in Terms(include) : Contains(CritBlob(r), Lower(term))

CritExclude(r, exclude) == ~(\E term \in Terms(exclude) : Contains(CritBlob(r), Lower(term)))

CritLocation(r, location) ==
    IsNone(location) \/ Contains(Lower(r[3]), Lower(Val(location)))

\* The parse of a date text: the first accepted format that parses it
FirstParse(s) ==
    IF ~IsNone(Strptime(s, FmtISO)) THEN Strptime(s, FmtISO)
    ELSE IF ~IsNone(Strptime(s, FmtAbbr)) THEN Strptime(s, FmtAbbr)
    ELSE Strptime(s, FmtFull)

OnOrAfter(d, since) ==
    \/ d.year > since.year
    \/ d.year = since.year /\ d.month > since.month
    \/ d.year = since.year /\ d.month = since.month /\ d.day >= since.day

CritSince(r, since) ==
    IsNone(since) \/ (~IsNone(FirstParse(r[4])) /\ OnOrAfter(Val(FirstParse(r[4])), Val(since)))

\* C3: with no since cutoff the filter stage leaves exactly the input rows,
\* in input order and unmodified, whose blob holds every include term, holds
\* no exclude term, and whose location field holds the location value when
\* one is set (all compared in lower case).
C3_FilterKeepsExactlyMatchingRows ==
    (JustRan("filter") /\ IsNone(since_dt)) =>
        RowsAfter("filter") =
            SelectSeq(RowsAfter("extract"),
                      LAMBDA r : /\ CritInclude(r, Val(args).include)
                                 /\ CritExclude(r, Val(args).exclude)
                                 /\ CritLocation(r, Val(args).location))

C3_Witness ==
    /\ Ran("filter") /\ IsNone(since_dt)
    /\ Val(args).include = Some(<<tEngineerUc>>)
    /\ Val(args).exclude = Some(<<tSenior, tAustin>>)
    /\ Val(args).location = Some(tRemoteUc)
    /\ RowsAfter("extract") = << <<sAnalyst, sBeta, sAustin, dJan15>>,
                                 <<sEngineer, sAcme, sRemoteUS, d20240105>> >>
    /\ RowsAfter("filter") = << <<sEngineer, sAcme, sRemoteUS, d20240105>> >>

\* C4: with a since cutoff active a row passes the date predicate exactly
\* when its date text parses under one of the accepted formats (tried in
\* order) to a date on or after since; a row that parses under none is
\* dropped, and no error is raised.
C4_SinceKeepsParsedOnOrAfter ==
    (JustRan("filter") /\ ~IsNone(since_dt)) =>
        /\ RowsAfter("filter") =
              SelectSeq(RowsAfter("extract"),
                        LAMBDA r : /\ CritInclude(r, Val(args).include)
                                   /\ CritExclude(r, Val(args).exclude)
                                   /\ CritLocation(r, Val(args).location)
                                   /\ ~IsNone(FirstParse(r[4]))
                                   /\ OnOrAfter(Val(FirstParse(r[4])), Val(since_dt)))
        /\ IsNone(error)
        /\ pc = "dedupe"

C4_Witness ==
    /\ pc = "returned"
    /\ Val(args).since_str = Some(since20240101)
    /\ RowsAfter("extract") = << <<sEngineer, sAcme, sRemoteUS, dSoon>>,
                                 <<sEngineer, sAcme, sRemoteUS, dJan15>> >>
    /\ RowsAfter("filter") = << <<sEngineer, sAcme, sRemoteUS, dJan15>> >>

Absent(o) == IsNone(o) \/ Len(Val(o)) = 0

Extracted == { RowsAfter("extract")[i] : i \in 1..Len(RowsAfter("extract")) }

\* The filter stage kept exactly the extracted rows that are in K, in order
FilterKept(K) ==
    RowsAfter("filter") = SelectSeq(RowsAfter("extract"), LAMBDA r : r \in K)

\* C5: an empty or absent criterion filters nothing out: for include,
\* exclude, location and since taken one at a time, when it is empty or
\* absent the rows kept are those the other three criteria keep; with all
\* four empty or absent the filter output is its input.
C5_EmptyCriterionIsIdentity ==
    JustRan("filter") =>
        LET a == Val(args)
            s == since_dt
        IN  /\ Absent(a.include) =>
                 FilterKept({ r \in Extracted : /\ CritExclude(r, a.exclude)
                                                /\ CritLocation(r, a.location)
                                                /\ CritSince(r, s) })
            /\ Absent(a.exclude) =>
                 FilterKept({ r \in Extracted : /\ CritInclude(r, a.include)
                                                /\ CritLocation(r, a.location)
                                                /\ CritSince(r, s) })
            /\ Absent(a.location) =>
                 FilterKept({ r \in Extracted : /\ CritInclude(r, a.include)
                                                /\ CritExclude(r, a.exclude)
                                                /\ CritSince(r, s) })
            /\ Absent(a.since_str) =>
                 FilterKept({ r \in Extracted : /\ CritInclude(r, a.include)
                                                /\ CritExclude(r, a.exclude)
                                                /\ CritLocation(r, a.location) })
            /\ (Absent(a.include) /\ Absent(a.exclude) /\ Absent(a.location)
                /\ Absent(a.since_str)) =>
                 RowsAfter("filter") = RowsAfter("extract")

C5_Witness ==
    /\ Ran("filter")
    /\ Val(args).include = Some(<<>>)
    /\ Val(args).exclude = Some(<<>>)
    /\ Val(args).location = Some(sEmpty)
    /\ Val(args).since_str = Some(sEmpty)
    /\ Len(RowsAfter("extract")) = MaxRows
    /\ RowsAfter("extract")[1] # RowsAfter("extract")[2]
    /\ RowsAfter("filter") = RowsAfter("extract")

\* The dedupe key as the specification words it
KeyOf(r) == <<Lower(r[1]), Lower(r[2]), Lower(r[3])>>

\* Positions of s that hold the first occurrence of their key
FirstOccurrences(s) == { i \in 1..Len(s) : \A j \in 1..(i - 1) : KeyOf(s[j]) # KeyOf(s[i]) }

\* The k-th smallest element of a set of positions
Nth(P, k) == CHOOSE i \in P : Cardinality({ j \in P : j <= i }) = k

\* C6: with dedupe enabled the stage leaves, in scan order, exactly the rows
\* that are the first occurrence of their key (lower(title), lower(company),
\* lower(location)) among the filtered rows: no two output rows share a key,
\* every input key is in the output, and the row kept is the earliest one
\* whatever the dates are, also when a sort by date follows.  With dedupe
\* disabled the stage passes the rows through.
C6_DedupeFirstSeenWins ==
    (JustRan("dedupe") \/ JustRan("sort")) =>
        LET in == RowsAfter("filter")
            out == RowsAfter("dedupe")
            P == FirstOccurrences(in)
        IN  IF Val(args).dedupe
            THEN /\ Len(out) = Cardinality(P)
                 /\ \A k \in 1..Len(out) : out[k] = in[Nth(P, k)]
                 /\ \A x, y \in 1..Len(out) : x # y => KeyOf(out[x]) # KeyOf(out[y])
                 /\ { KeyOf(in[i]) : i \in 1..Len(in) } = { KeyOf(out[k]) : k \in 1..Len(out) }
                 /\ JustRan("sort") =>
                      { RowsAfter("sort")[k] : k \in 1..Len(RowsAfter("sort")) }
                        = { in[i] : i \in P }
            ELSE out = in

C6_Witness ==
    /\ pc = "returned"
    /\ Val(args).dedupe
    /\ Val(args).sort_by = Some("date")
    /\ RowsAfter("filter") = << <<sEngineerLc, sAcmeUc, sRemoteUSLc, dSoon>>,
                                <<sAnalyst, sBeta, sAustin, dJan15>>,
                                <<sEngineer, sAcme, sRemoteUS, d20240105>> >>
    /\ RowsAfter("dedupe") = << <<sEngineerLc, sAcmeUc, sRemoteUSLc, dSoon>>,
                                <<sAnalyst, sBeta, sAustin, dJan15>> >>
    /\ file = Some(CsvRecords(<< <<sAnalyst, sBeta, sAustin, dJan15>>,
                                 <<sEngineerLc, sAcmeUc, sRemoteUSLc, dSoon>> >>))

\* out is in rearranged, where Before holds the pairs <<a, b>> of rows with
\* a ranked strictly before b: no row of out follows one it is ranked
\* before, and for every row the rows of its rank are the same, and in the
\* same order, in out as in in (so out is a permutation of in).
SameRank(a, b, Before) == <<a, b>> \notin Before /\ <<b, a>> \notin Before

StableOrderingOf(in, out, Before) ==
    /\ Len(out) = Len(in)
    /\ \A x, y \in 1..Len(out) : x < y => <<out[y], out[x]>> \notin Before
    /\ \A i \in 1..Len(in) :
         SelectSeq(out, LAMBDA r : r \in { in[j] : j \in 1..Len(in) }
                                  /\ SameRank(r, in[i], Before))
           = SelectSeq(in, LAMBDA r : SameRank(r, in[i], Before))

\* The pairs <<a, b>> of rows of s
Pairs(s) == { <<s[i], s[j]>> : i, j \in 1..Len(s) }

\* The date a row sorts by: its parsed date, the minimum date when none parses
SortDate(r) == IF IsNone(FirstParse(r[4])) THEN Dt(1, 1, 1) ELSE Val(FirstParse(r[4]))

Later(d, e) == OnOrAfter(d, e) /\ d # e

\* C7: with sort_by = date the sort stage leaves a permutation of its input,
\* most recent parsed date first; a row whose date text does not parse is
\* keyed as the minimum date and so comes after every row with a later
\* parseable date; rows of equal key keep their pre-sort relative order.
C7_DateSortDescendingStable ==
    (JustRan("sort") /\ Val(args).sort_by = Some("date")) =>
        LET in == RowsAfter("dedupe")
            out == RowsAfter("sort")
        IN  /\ StableOrderingOf(in, out,
                   { p \in Pairs(in) : Later(SortDate(p[1]), SortDate(p[2])) })
            /\ \A x, y \in 1..Len(out) :
                 (/\ IsNone(FirstParse(out[x][4]))
                  /\ ~IsNone(FirstParse(out[y][4]))
                  /\ Later(Val(FirstParse(out[y][4])), Dt(1, 1, 1))) => y < x

C7_Witness ==
    /\ Ran("sort")
    /\ Val(args).sort_by = Some("date")
    /\ RowsAfter("dedupe") = << <<sEmpty, sEmpty, sEmpty, sEmpty>>,
                                <<sAnalyst, sAcme, sRemoteUS, dJanuary15>>,
                                <<sAnalyst, sBeta, sAustin, dJan15>> >>
    /\ RowsAfter("sort") = << <<sAnalyst, sAcme, sRemoteUS, dJanuary15>>,
                              <<sAnalyst, sBeta, sAustin, dJan15>>,
                              <<sEmpty, sEmpty, sEmpty, sEmpty>> >>

ColumnOf(sort_by) == CASE sort_by = "title" -> 1 [] sort_by = "company" -> 2
                       [] sort_by = "location" -> 3

\* C8: with sort_by in {title, company, location} the sort stage leaves a
\* permutation of its input in ascending order of the lower-cased field, rows
\* whose lower-cased values are equal keeping their pre-sort order; with
\* sort_by absent the rows are not reordered.
C8_TextSortAscendingStable ==
    JustRan("sort") =>
        LET in == RowsAfter("dedupe")
            out == RowsAfter("sort")
            sb == Val(args).sort_by
        IN  /\ (~IsNone(sb) /\ Val(sb) \in {"title", "company", "location"}) =>
                 StableOrderingOf(in, out,
                     { p \in Pairs(in) : StrLess(Lower(p[1][ColumnOf(Val(sb))]),
                                                 Lower(p[2][ColumnOf(Val(sb))])) })
            /\ (IsNone(sb) \/ Val(sb) = "") => out = in

C8_Witness ==
    /\ Ran("sort")
    /\ Val(args).sort_by = Some("title")
    /\ RowsAfter("dedupe") = << <<sEngineerLc, sAcmeUc, sRemoteUSLc, dSoon>>,
                                <<sAnalyst, sBeta, sAustin, dJan15>>,
                                <<sEngineer, sAcme, sRemoteUS, d20240105>> >>
    /\ RowsAfter("sort") = << <<sAnalyst, sBeta, sAustin, dJan15>>,
                              <<sEngineerLc, sAcmeUc, sRemoteUSLc, dSoon>>,
                              <<sEngineer, sAcme, sRemoteUS, d20240105>> >>

\* C9: the limit stage runs after the sort stage and keeps a prefix of the
\* sorted rows: a positive limit k writes the first min(k, n) of the n sorted
\* rows in order, a zero, negative or absent limit writes all n, and the
\* value returned is the number of data rows written after the header.
C9_LimitKeepsPrefixAndCountIsReturned ==
    pc = "returned" =>
        LET sorted == RowsAfter("sort")
            n == Len(sorted)
            lim == Val(args).limit
            kept == IF ~IsNone(lim) /\ Val(lim) >= 1
                    THEN (IF Val(lim) < n THEN Val(lim) ELSE n)
                    ELSE n
        IN  /\ StageIndex("sort") < StageIndex("limit")
            /\ StageIndex("limit") < StageIndex("write")
            /\ ~IsNone(file)
            /\ Len(Val(file)) = kept + 1
            /\ Val(file)[1] = CsvHeader
            /\ \A k \in 1..kept : Val(file)[k + 1] = sorted[k]
            /\ result = Some(Len(Val(file)) - 1)

C9_Witness ==
    /\ pc = "returned"
    /\ Val(args).limit = Some(1)
    /\ Val(args).sort_by = Some("date")
    /\ RowsAfter("sort") = << <<sEngineer, sAcme, sRemoteUS, d20240105>>,
                              <<sAnalyst, sBeta, sAustin, dSoon>>,
                              <<sAnalyst, sBeta, sAustin, dSoon>> >>
    /\ file = Some(CsvRecords(<< <<sEngineer, sAcme, sRemoteUS, d20240105>> >>))
    /\ result = Some(1)

\* C10: for every run of main with the fakejobs subcommand, the include,
\* exclude, location, since_str, dedupe, sort_by and limit that
\* scrape_fake_jobs_to_csv receives are the parsed option values (a missing
\* include or exclude list and an empty one being the same thing).
C10_CliOptionsReachPipeline ==
    (input.entry = "main" /\ ~IsNone(args)) =>
        /\ OrEmpty(Val(args).include) = OrEmpty(input.opts.include)
        /\ OrEmpty(Val(args).exclude) = OrEmpty(input.opts.exclude)
        /\ Val(args).location = input.opts.location
        /\ Val(args).since_str = input.opts.since_str
        /\ Val(args).dedupe = input.opts.dedupe
        /\ Val(args).sort_by = input.opts.sort_by
        /\ Val(args).limit = input.opts.limit

====
